---- MODULE Spec2Model ----
(***************************************************************************)
(* Authentication core of the epic-stack port to drizzle/libsql:           *)
(* app/utils/auth.server.ts over the schema of drizzle.config.ts.          *)
(*                                                                         *)
(* The relational store is the record db (one field per table).  Requests  *)
(* are served concurrently: a handler that touches the store in two round  *)
(* trips outside a transaction (login) is two steps, with any other        *)
(* request in between, and the delete logout fires and never awaits is a   *)
(* step of its own.  A db.transaction body is one step: SQLite admits a    *)
(* single writer and readers only ever see committed rows, so the          *)
(* statements of a transaction are applied in order to a working copy      *)
(* which is committed or discarded as a whole (Transaction).  Hashing a    *)
(* password before the transaction reads nothing shared and is part of     *)
(* the handler's step.                                                     *)
(***************************************************************************)
EXTENDS Integers, Sequences, FiniteSets, TLC

(* ------------------------------ bounds --------------------------------- *)
MaxUsers == 2
MaxSessions == 2
MaxNotes == 1
MaxNoteImages == 1
MaxChanges == 2
MaxVerifications == 2
MaxLoads == 1

(* ------------------------------ values --------------------------------- *)
\* absent id / null
None == 0

\* Strings whose case matters are sequences of character codes.
\* the usernames signups ask for: "A", "b"
UsernameInputs == {<<65>>, <<98>>}
\* the usernames logins and password resets name: "A", which no stored
\* (lowercased) username equals, and "b"
UsernameLookups == {<<65>>, <<98>>}
\* "X", "y"
EmailInputs == {<<88>>, <<121>>}
PasswordInputs == {"pw1", "pw2"}
\* bcrypt draws a fresh salt per hash
Salts == {1}
ProviderNames == {"github"}
ProviderIds == {"g1"}
\* what the verify session holds under newEmailAddressSessionKey: nothing
\* (`!newEmail` holds of undefined and of ""), or the address the
\* change-email form accepted: "y", "z"
NoEmail == <<>>
PendingEmailInputs == {NoEmail, <<121>>, <<122>>}
\* imageUrl?: absent, or present with downloadFile resolving / rejecting
ImageInputs == {"absent", "ok", "throws"}
\* what verifications are made for: a purpose, a target and a secret
VerificationTypes == {"email-change", "reset-password"}
VerificationTargets == {<<120>>, <<121>>}
SecretInputs == {"s1", "s2"}
\* requireUserId's redirectTo option: null, or left out
RedirectToInputs == {"null", "undefined"}

\* a signup that stores the email and the username as they were typed
ToLowerCaseIdentity(s) == s

\* String.prototype.toLowerCase on the ASCII range
ToLowerCase(s) ==
  [i \in DOMAIN s |-> IF s[i] >= 65 /\ s[i] <= 90 THEN s[i] + 32 ELSE s[i]]

(* ------------------------------- time ---------------------------------- *)
\* An instant (a JS Date) is seconds since the epoch plus the milliseconds
\* within that second; the two parts are kept apart so that thirty days of
\* milliseconds stay inside TLC's integers.
MsPerSecond == 1000

\* SESSION_EXPIRATION_TIME = 1000 * 60 * 60 * 24 * 30 ms, in whole seconds
SESSION_EXPIRATION_SECONDS == 60 * 60 * 24 * 30

Instant(s, ms) == [s |-> s, ms |-> ms]

InstantLess(a, b) == a.s < b.s \/ (a.s = b.s /\ a.ms < b.ms)

\* new Date(Date.now() + SESSION_EXPIRATION_TIME)
getSessionExpirationDate(t) == Instant(t.s + SESSION_EXPIRATION_SECONDS, t.ms)

\* integer(..., { mode: 'timestamp' }): a Date is written as
\* Math.floor(getTime() / 1000) and read back as new Date(value * 1000)
mapToDriverValue(date) == date.s

mapFromDriverValue(sec) == Instant(sec, 0)

(* ------------------------------ bcrypt --------------------------------- *)
\* The digest of a salted password; distinct (salt, password) pairs have
\* distinct digests.
Digest(salt, password) == <<salt, password>>

\* bcrypt.hash(password, 10) with the salt it drew
BcryptHash(password, salt) ==
  [salt |-> salt, digest |-> Digest(salt, password)]

\* bcrypt.compare: re-hash the candidate with the salt stored in the hash
BcryptCompare(password, hash) == BcryptHash(password, hash.salt) = hash

getPasswordHash(password, salt) == BcryptHash(password, salt)

(* ------------------------------ store ---------------------------------- *)
VARIABLES
  db,        \* the committed rows of every table, and the id generators
  now,       \* the wall clock (Date.now())
  logins,    \* logins[u]: the logins that verified user u and have not yet
             \* inserted their session
  ret,       \* what the step just taken answered (NoResponse: nothing)
  deletes,   \* session deletes fired by logout and still in flight
  changes,   \* email changes that have read the user's row and have not
             \* yet updated it
  sent,      \* the mails the step just taken handed to sendEmail
  cookie,    \* the session id the browser's auth cookie carries (None: none)
  loads      \* note-edit loads that have resolved their user and have not
             \* yet queried the note

vars == <<db, now, logins, ret, deletes, changes, sent, cookie, loads>>

\* role rows of the seed data: [id, name]
UserRole == [id |-> 1, name |-> "user"]

AdminRole == [id |-> 2, name |-> "admin"]

\* The store right after the migration ran: every table empty but role.
\*   user          [id, email, username]      email unique, username unique
\*   password      [hash, userId]             no key: a list of rows
\*   session       [id, expirationDate, userId]
\*   connection    [providerName, providerId, userId]   pair unique
\*   user_image    [contentType, userId]
\*   role_user     [roleId, userId]           no key: a list of rows
\*   note          [id, ownerId]
\*   note_image    [id, noteId]
\*   verification  [createdAt, type, target, secret, expiresAt]
\*                                              (target, type) unique
EmptyStore(roleRows) ==
  [users |-> {}, passwords |-> <<>>, sessions |-> {}, connections |-> {},
   userImages |-> {}, rolesToUsers |-> <<>>, roles |-> roleRows,
   notes |-> {}, noteImages |-> {}, verifications |-> {},
   nextUserId |-> 1, nextSessionId |-> 1, nextNoteId |-> 1,
   nextNoteImageId |-> 1]

UserIds(d) == {u.id : u \in d.users}

\* the outcome of one statement: the store after it, and what it returned
Stmt(ok, err, d, id) == [ok |-> ok, err |-> err, db |-> d, id |-> id]

\* insert(users).values({email, username}).returning({id}) with a plain insert
\* that ignores the unique indexes
InsertUserNoUnique(d, email, username) ==
  Stmt(TRUE, "", [d EXCEPT !.users = @ \cup {[id |-> d.nextUserId,
                                              email |-> email,
                                              username |-> username]},
                          !.nextUserId = @ + 1], d.nextUserId)

\* insert(users).values({email, username}).returning({id}); the id is a
\* fresh createId(); user_email_unique and user_username_unique are checked
\* by the insert itself
InsertUser(d, email, username) ==
  IF \E u \in d.users : u.email = email \/ u.username = username
  THEN Stmt(FALSE, "unique", d, None)
  ELSE InsertUserNoUnique(d, email, username)

\* query.roles.findFirst({ where: eq(roles.name, name) }): the row's id or null
FindRole(d, name) ==
  IF \E r \in d.roles : r.name = name
  THEN (CHOOSE r \in d.roles : r.name = name).id
  ELSE None

\* insert(passwords).values({hash, userId}); user_id references user(id)
InsertPassword(d, hash, userId) ==
  IF userId \notin UserIds(d)
  THEN Stmt(FALSE, "foreign_key", d, None)
  ELSE Stmt(TRUE, "", [d EXCEPT !.passwords =
                         Append(@, [hash |-> hash, userId |-> userId])], None)

\* insert(rolesToUsers).values({userId, roleId})
InsertRoleUser(d, userId, roleId) ==
  IF userId \notin UserIds(d) \/ roleId \notin {r.id : r \in d.roles}
  THEN Stmt(FALSE, "foreign_key", d, None)
  ELSE Stmt(TRUE, "", [d EXCEPT !.rolesToUsers =
                         Append(@, [roleId |-> roleId, userId |-> userId])],
            None)

\* insert(connections) on a table without its unique index; rows are told
\* apart by their owner
InsertConnectionNoUnique(d, userId, providerId, providerName) ==
  IF userId \notin UserIds(d)
  THEN Stmt(FALSE, "foreign_key", d, None)
  ELSE Stmt(TRUE, "", [d EXCEPT !.connections = @ \cup
                         {[providerName |-> providerName,
                           providerId |-> providerId,
                           userId |-> userId]}], None)

\* insert(connections).values({userId, providerId, providerName});
\* connection_provider_name_prodiver_id_unique is checked by the insert
InsertConnection(d, userId, providerId, providerName) ==
  IF \E c \in d.connections :
       c.providerName = providerName /\ c.providerId = providerId
  THEN Stmt(FALSE, "unique connection", d, None)
  ELSE IF userId \notin UserIds(d)
  THEN Stmt(FALSE, "foreign_key", d, None)
  ELSE Stmt(TRUE, "", [d EXCEPT !.connections = @ \cup
                         {[providerName |-> providerName,
                           providerId |-> providerId,
                           userId |-> userId]}], None)

\* insert(userImages).values({contentType, blob, userId})
InsertUserImage(d, contentType, userId) ==
  IF userId \notin UserIds(d)
  THEN Stmt(FALSE, "foreign_key", d, None)
  ELSE Stmt(TRUE, "", [d EXCEPT !.userImages = @ \cup
                         {[contentType |-> contentType, userId |-> userId]}],
            None)

\* an insert(sessions) that first removes the sessions the user already has
InsertSessionSingle(d, expirationDate, userId) ==
  IF userId \notin UserIds(d)
  THEN Stmt(FALSE, "foreign_key", d, None)
  ELSE Stmt(TRUE, "",
            [d EXCEPT !.sessions = {s \in @ : s.userId # userId} \cup
                        {[id |-> d.nextSessionId,
                          expirationDate |-> mapToDriverValue(expirationDate),
                          userId |-> userId]},
                      !.nextSessionId = @ + 1], d.nextSessionId)

\* insert(sessions).values({expirationDate, userId}).returning({id, ...});
\* the date is stored through the timestamp column
InsertSession(d, expirationDate, userId) ==
  IF userId \notin UserIds(d)
  THEN Stmt(FALSE, "foreign_key", d, None)
  ELSE Stmt(TRUE, "",
            [d EXCEPT !.sessions = @ \cup
                        {[id |-> d.nextSessionId,
                          expirationDate |-> mapToDriverValue(expirationDate),
                          userId |-> userId]},
                      !.nextSessionId = @ + 1], d.nextSessionId)

\* update(users).set({email}) on a table without user_email_unique
UpdateUserEmailNoUnique(d, userId, email) ==
  IF userId \notin UserIds(d) THEN Stmt(TRUE, "", d, None)
  ELSE Stmt(TRUE, "",
            [d EXCEPT !.users = {IF u.id = userId
                                 THEN [u EXCEPT !.email = email]
                                 ELSE u : u \in @}], userId)

\* update(users).set({email}).where(eq(users.id, userId)).returning({id,
\* ...}): user_email_unique is checked by the update; the id of the row
\* updated, None when the where matched no row
UpdateUserEmail(d, userId, email) ==
  IF /\ userId \in UserIds(d)
     /\ \E u \in d.users : u.id # userId /\ u.email = email
  THEN Stmt(FALSE, "unique", d, None)
  ELSE UpdateUserEmailNoUnique(d, userId, email)

\* insert(notes).values({title, content, ownerId}); owner_id references
\* user(id)
InsertNote(d, ownerId) ==
  IF ownerId \notin UserIds(d)
  THEN Stmt(FALSE, "foreign_key", d, None)
  ELSE Stmt(TRUE, "", [d EXCEPT !.notes = @ \cup {[id |-> d.nextNoteId,
                                                    ownerId |-> ownerId]},
                               !.nextNoteId = @ + 1], d.nextNoteId)

\* insert(noteImages).values({contentType, blob, noteId}); note_id
\* references note(id)
InsertNoteImage(d, noteId) ==
  IF noteId \notin {n.id : n \in d.notes}
  THEN Stmt(FALSE, "foreign_key", d, None)
  ELSE Stmt(TRUE, "", [d EXCEPT !.noteImages = @ \cup
                         {[id |-> d.nextNoteImageId, noteId |-> noteId]},
                       !.nextNoteImageId = @ + 1], d.nextNoteImageId)

\* expiresAt is the one timestamp column that may be null
NoExpiry == -1

\* the verification rows of one (target, type) pair
VerificationRows(d, type, target) ==
  {v \in d.verifications : v.type = type /\ v.target = target}

\* insert(verifications) into a table without verification_target_type_unique
InsertVerificationNoUnique(d, type, target, secret, expiresAt, t) ==
  Stmt(TRUE, "",
       [d EXCEPT !.verifications = @ \cup {[createdAt |-> mapToDriverValue(t),
                                            type |-> type, target |-> target,
                                            secret |-> secret,
                                            expiresAt |-> expiresAt]}], None)

\* insert(verifications).values({type, target, secret, expiresAt}) at
\* instant t, which created_at defaults to: the unique index on
\* (target, type) rejects a second row for the pair
InsertVerification(d, type, target, secret, expiresAt, t) ==
  IF VerificationRows(d, type, target) # {}
  THEN Stmt(FALSE, "unique verification", d, None)
  ELSE InsertVerificationNoUnique(d, type, target, secret, expiresAt, t)

\* the insert with ON CONFLICT (target, type) DO UPDATE: the row the index
\* names as the conflict takes the new secret and expiry and keeps the rest
UpsertVerification(d, type, target, secret, expiresAt, t) ==
  LET insert == InsertVerification(d, type, target, secret, expiresAt, t)
  IN  IF insert.ok THEN insert.db
      ELSE [d EXCEPT !.verifications =
              {IF v \in VerificationRows(d, type, target)
               THEN [v EXCEPT !.secret = secret, !.expiresAt = expiresAt]
               ELSE v : v \in @}]

\* delete(verifications).where(and(eq(target), eq(type)))
DeleteVerification(d, type, target) ==
  [d EXCEPT !.verifications = @ \ VerificationRows(d, type, target)]

\* update(passwords).set({hash, userId}): the statement has no where(), so
\* it rewrites every row of the table
UpdatePasswords(d, hash, userId) ==
  [d EXCEPT !.passwords =
     [i \in DOMAIN @ |-> [hash |-> hash, userId |-> userId]]]

\* a delete(sessions) whose where() was left out
DeleteSessionNoWhere(d, sessionId) == [d EXCEPT !.sessions = {}]

\* delete(sessions).where(eq(sessions.id, sessionId))
DeleteSession(d, sessionId) ==
  [d EXCEPT !.sessions = {s \in @ : s.id # sessionId}]

\* a delete(users) on tables whose foreign keys do not cascade
DeleteUserNoCascade(d, userId) ==
  [d EXCEPT !.users = {u \in @ : u.id # userId}]

\* delete(users).where(eq(users.id, userId)): every table that references
\* user(id) does so ON DELETE cascade, and note_image references note(id)
\* ON DELETE cascade
DeleteUserCascade(d, userId) ==
  [d EXCEPT !.users = {u \in @ : u.id # userId},
            !.passwords = SelectSeq(@, LAMBDA r : r.userId # userId),
            !.sessions = {r \in @ : r.userId # userId},
            !.connections = {r \in @ : r.userId # userId},
            !.userImages = {r \in @ : r.userId # userId},
            !.rolesToUsers = SelectSeq(@, LAMBDA r : r.userId # userId),
            !.notes = {n \in @ : n.ownerId # userId},
            !.noteImages =
              {i \in @ : ~\E n \in d.notes :
                            n.id = i.noteId /\ n.ownerId = userId}]

\* a transaction that keeps what its statements wrote when the callback throws
TransactionNoRollback(before, outcome) == outcome.db

\* db.transaction(callback): the callback's writes are committed when it
\* returns and rolled back when it throws
Transaction(before, outcome) == IF outcome.ok THEN outcome.db ELSE before

(* --------------------------- pure handlers ----------------------------- *)
\* what a handler hands back to the route that called it
NoSession == [id |-> None, expirationDate |-> Instant(0, 0)]

\* no note in the answer
NoNote == [id |-> None, ownerId |-> None]

Response(op, kind, userId, session, err, to, setCookie) ==
  [op |-> op, kind |-> kind, userId |-> userId, session |-> session,
   err |-> err, to |-> to, setCookie |-> setCookie, note |-> NoNote]

NoResponse == Response("none", "none", None, NoSession, "", "", "")

\* return null
ReturnNull(op) == Response(op, "return", None, NoSession, "", "", "")

\* return true, return false
ReturnBoolean(op, value) ==
  Response(op, IF value THEN "return true" ELSE "return false", None,
           NoSession, "", "", "")

\* return a user (its id)
ReturnUser(op, userId) ==
  Response(op, "return", userId, NoSession, "", "", "")

\* return the session row as .returning() read it back
ReturnSession(op, d, sessionId) ==
  LET row == CHOOSE s \in d.sessions : s.id = sessionId
  IN  Response(op, "return", None,
               [id |-> row.id,
                expirationDate |-> mapFromDriverValue(row.expirationDate)],
               "", "", "")

\* the promise rejects with an error
Throw(op, err) == Response(op, "throw", None, NoSession, err, "", "")

\* throw redirect(to, { headers: { 'set-cookie': ... } })
Redirect(op, to, setCookie) ==
  Response(op, "redirect", None, NoSession, "", to, setCookie)

\* json({ result }, { status })
Json(op, status) == Response(op, "json", None, NoSession, status, "", "")

\* json({ note })
JsonNote(op, note) ==
  [Response(op, "json", None, NoSession, "200", "", "") EXCEPT !.note = note]

\* getUserId with a lookup that forgets gt(sessions.expirationDate, new Date())
getUserIdNoExpiry(d, sessionId, t) ==
  IF sessionId = None THEN ReturnNull("getUserId")
  ELSE LET found == {s \in d.sessions :
                       s.id = sessionId /\ s.userId \in UserIds(d)}
       IN  IF found = {}
           THEN Redirect("getUserId", "/", "destroy")
           ELSE ReturnUser("getUserId", (CHOOSE s \in found : TRUE).userId)

\* getUserId with a redirect that leaves the auth cookie as it is
getUserIdNoDestroy(d, sessionId, t) ==
  IF sessionId = None THEN ReturnNull("getUserId")
  ELSE LET found == {s \in d.sessions :
                       /\ s.id = sessionId
                       /\ s.expirationDate > mapToDriverValue(t)
                       /\ s.userId \in UserIds(d)}
       IN  IF found = {}
           THEN Redirect("getUserId", "/", "")
           ELSE ReturnUser("getUserId", (CHOOSE s \in found : TRUE).userId)

\* getUserId(request): sessionId is what the auth cookie carries (None when
\* it carries nothing), t is new Date() at the lookup
getUserId(d, sessionId, t) ==
  IF sessionId = None THEN ReturnNull("getUserId")
  ELSE LET found == {s \in d.sessions :
                       /\ s.id = sessionId
                       /\ s.expirationDate > mapToDriverValue(t)
                       /\ s.userId \in UserIds(d)}
       IN  IF found = {}
           THEN Redirect("getUserId", "/", "destroy")
           ELSE ReturnUser("getUserId", (CHOOSE s \in found : TRUE).userId)

\* the login URL requireUserId redirects to: with redirectTo null it is
\* /login, otherwise it carries the path and search of the request (here a
\* request for /me) as its redirectTo parameter
loginRedirect(redirectTo) ==
  IF redirectTo = "null" THEN "/login" ELSE "/login?redirectTo=%2Fme"

\* requireUserId without `if (!userId)`: what getUserId returned is returned
requireUserIdNoCheck(d, sessionId, t, redirectTo) ==
  [getUserId(d, sessionId, t) EXCEPT !.op = "requireUserId"]

\* requireUserId(request, { redirectTo }): the redirect getUserId throws
\* passes through, a null user id becomes the redirect to the login page
requireUserId(d, sessionId, t, redirectTo) ==
  LET answer == getUserId(d, sessionId, t)
  IN  IF answer.kind = "redirect"
      THEN [answer EXCEPT !.op = "requireUserId"]
      ELSE IF answer.userId = None
      THEN Redirect("requireUserId", loginRedirect(redirectTo), "")
      ELSE ReturnUser("requireUserId", answer.userId)

\* requireAnonymous(request): the redirect getUserId throws passes through,
\* a user id becomes the redirect to "/", and null returns
requireAnonymous(d, sessionId, t) ==
  LET answer == getUserId(d, sessionId, t)
  IN  IF answer.kind = "redirect"
      THEN [answer EXCEPT !.op = "requireAnonymous"]
      ELSE IF answer.userId # None
      THEN Redirect("requireAnonymous", "/", "")
      ELSE ReturnNull("requireAnonymous")

\* notes.findFirst without eq(notes.ownerId, userId)
FindFirstNoteAnyOwner(d, noteId, userId) == {n \in d.notes : n.id = noteId}

\* notes.findFirst({ where: and(eq(notes.id, noteId),
\* eq(notes.ownerId, userId)) }): the rows selected
FindFirstNote(d, noteId, userId) ==
  {n \in d.notes : n.id = noteId /\ n.ownerId = userId}

\* the where of a users query: eq(users.<column>, value)
Where(column, value) == [column |-> column, value |-> value]

Selects(where, u) ==
  \/ where.column = "username" /\ u.username = where.value
  \/ where.column = "email" /\ u.email = where.value

\* users.findFirst({ where }): the first row selected (lowest id), or None
FindFirstUser(d, where) ==
  LET hits == {u \in d.users : Selects(where, u)}
  IN  IF hits = {} THEN None
      ELSE (CHOOSE u \in hits : \A v \in hits : u.id <= v.id).id

\* a password lookup that forgets whose row it reads
FirstPasswordRowAny(d, userId) == IF d.passwords = <<>> THEN 0 ELSE 1

\* with: { password: { columns: { hash } } }: the first password row of the
\* user, 0 when it has none
FirstPasswordRow(d, userId) ==
  LET rows == {i \in DOMAIN d.passwords : d.passwords[i].userId = userId}
  IN  IF rows = {} THEN 0
      ELSE CHOOSE i \in rows : \A j \in rows : i <= j

\* verifyUserPassword that skips the bcrypt.compare check
verifyUserPasswordNoCompare(d, where, password) ==
  LET userId == FindFirstUser(d, where)
  IN  IF userId = None \/ FirstPasswordRow(d, userId) = 0 THEN None
      ELSE userId

\* verifyUserPassword that lets a user without a password row pass
verifyUserPasswordNoRowPasses(d, where, password) ==
  LET userId == FindFirstUser(d, where)
  IN  IF userId = None THEN None
      ELSE IF FirstPasswordRow(d, userId) = 0 THEN userId
      ELSE IF ~BcryptCompare(password,
                             d.passwords[FirstPasswordRow(d, userId)].hash)
      THEN None
      ELSE userId

\* verifyUserPassword(where, password): the user's id, or None for null
verifyUserPassword(d, where, password) ==
  LET userId == FindFirstUser(d, where)
  IN  IF userId = None \/ FirstPasswordRow(d, userId) = 0 THEN None
      ELSE IF ~BcryptCompare(password,
                             d.passwords[FirstPasswordRow(d, userId)].hash)
      THEN None
      ELSE userId

\* the callback signup hands to db.transaction; fault names a statement the
\* storage engine rejects ("none": it rejects nothing)
signupCallback(d, email, username, hashedPassword, t, fault) ==
  LET user == InsertUser(d, ToLowerCase(email), ToLowerCase(username))
  IN
  IF ~user.ok THEN user
  ELSE
  LET roleId == FindRole(user.db, "user")
  IN
  IF roleId = None THEN Stmt(FALSE, "Failed to find user role", user.db, None)
  ELSE
  LET password == InsertPassword(user.db, hashedPassword, user.id)
  IN
  IF ~password.ok THEN password
  ELSE
  LET roleUser == InsertRoleUser(password.db, user.id, roleId)
  IN
  IF ~roleUser.ok THEN roleUser
  ELSE
  IF fault = "session" THEN Stmt(FALSE, "storage", roleUser.db, None)
  ELSE InsertSession(roleUser.db, getSessionExpirationDate(t), user.id)

\* the callback signupWithConnection hands to db.transaction; image is
\* "absent" (no imageUrl), "ok" or "throws" (what downloadFile does)
signupWithConnectionCallback(d, email, username, providerId, providerName, image, t, fault) ==
  LET user == InsertUser(d, ToLowerCase(email), ToLowerCase(username))
  IN
  IF ~user.ok THEN user
  ELSE
  LET roleId == FindRole(user.db, "user")
  IN
  IF roleId = None THEN Stmt(FALSE, "Failed to find user role", user.db, None)
  ELSE
  LET roleUser == InsertRoleUser(user.db, user.id, roleId)
  IN
  IF ~roleUser.ok THEN roleUser
  ELSE
  LET connection ==
        InsertConnection(roleUser.db, user.id, providerId, providerName)
  IN
  IF ~connection.ok THEN connection
  ELSE
  IF image = "throws" THEN Stmt(FALSE, "download", connection.db, None)
  ELSE
  LET userImage == IF image = "absent" THEN connection
                   ELSE InsertUserImage(connection.db, "image/png", user.id)
  IN
  IF ~userImage.ok THEN userImage
  ELSE
  IF fault = "session" THEN Stmt(FALSE, "storage", userImage.db, None)
  ELSE InsertSession(userImage.db, getSessionExpirationDate(t), user.id)

\* resetUserPassword's callback without invariant(user, 'User not found'):
\* the update runs with the id of no user
resetUserPasswordCallbackNoInvariant(d, username, hashedPassword) ==
  LET userId == FindFirstUser(d, Where("username", username))
  IN  Stmt(TRUE, "", UpdatePasswords(d, hashedPassword, userId), userId)

\* the callback resetUserPassword hands to db.transaction
resetUserPasswordCallback(d, username, hashedPassword) ==
  LET userId == FindFirstUser(d, Where("username", username))
  IN  IF userId = None THEN Stmt(FALSE, "User not found", d, None)
      ELSE Stmt(TRUE, "", UpdatePasswords(d, hashedPassword, userId), userId)

\* the seconds one code stays current
VerificationPeriod == 600

\* the one-time code of a secret at an instant: it changes with the secret
\* and with the period the instant falls in
GenerateCode(secret, t) == <<secret, t.s \div VerificationPeriod>>

\* the row of the pair that has not expired is looked up and the submitted
\* code compared with the code of its secret
IsCodeValid(d, type, target, code, t) ==
  LET rows == {v \in VerificationRows(d, type, target) :
                 \/ v.expiresAt = NoExpiry
                 \/ InstantLess(t, mapFromDriverValue(v.expiresAt))}
  IN  /\ rows # {}
      /\ code = GenerateCode((CHOOSE v \in rows : TRUE).secret, t)

(* ------------------------------ actions -------------------------------- *)
\* what the storage engine may reject: nothing, or the session insert
Faults == {"none", "session"}

\* the instants the clock is read at: the start, the last millisecond before
\* thirty days have passed, and thirty days
ClockInstants ==
  {Instant(0, 0),
   Instant(SESSION_EXPIRATION_SECONDS - 1, MsPerSecond - 1),
   Instant(SESSION_EXPIRATION_SECONDS, 0)}

\* logins that are past verifyUserPassword and will still insert a session
RECURSIVE LoginsInFlight(_, _)

LoginsInFlight(l, n) ==
  IF n = 0 THEN 0 ELSE l[n] + LoginsInFlight(l, n - 1)

MayInsertUser == db.nextUserId <= MaxUsers

MayInsertSession ==
  db.nextSessionId + LoginsInFlight(logins, MaxUsers) <= MaxSessions

\* what a cookie can carry: nothing, or any session id ever issued
CookieSessionIds == 0..(db.nextSessionId - 1)

Init ==
  /\ db \in {EmptyStore({UserRole, AdminRole}), EmptyStore({AdminRole})}
  /\ now = Instant(0, 0)
  /\ logins = [u \in 1..MaxUsers |-> 0]
  /\ ret = NoResponse
  /\ deletes = {}
  /\ changes = {}
  /\ sent = {}
  /\ cookie = None
  /\ loads = {}

\* The event loop hands a settled handler's answer to its caller before it
\* runs the next continuation.
Ready == ret = NoResponse

Respond ==
  /\ ret # NoResponse
  /\ ret' = NoResponse
  /\ sent' = {}
  /\ UNCHANGED <<db, now, logins, deletes, changes, cookie, loads>>

\* time passes
Tick(t) ==
  /\ Ready
  /\ InstantLess(now, t)
  /\ now' = t
  /\ ret' = NoResponse
  /\ UNCHANGED <<db, logins, deletes, changes, sent, cookie, loads>>

\* a getUserId that deletes the row of a session it finds expired
GetUserIdPurging(sessionId) ==
  /\ Ready
  /\ ret' = getUserId(db, sessionId, now)
  /\ db' = IF ret'.kind = "redirect" THEN DeleteSession(db, sessionId) ELSE db
  /\ UNCHANGED <<now, logins, deletes, changes, sent, cookie, loads>>

\* getUserId(request), the cookie carrying sessionId
GetUserId(sessionId) ==
  /\ Ready
  /\ ret' = getUserId(db, sessionId, now)
  /\ UNCHANGED <<db, now, logins, deletes, changes, sent, cookie, loads>>

\* login, up to and including `if (!user) return null`
Login(username, password) ==
  /\ Ready
  /\ LET userId == verifyUserPassword(db, Where("username", username), password)
     IN  IF userId = None
         THEN /\ ret' = ReturnNull("login")
              /\ UNCHANGED logins
         ELSE /\ MayInsertSession
              /\ logins' = [logins EXCEPT ![userId] = @ + 1]
              /\ ret' = NoResponse
  /\ UNCHANGED <<db, now, deletes, changes, sent, cookie, loads>>

\* login, from the session insert on, for a login that verified userId
LoginInsert(userId, fault) ==
  /\ Ready
  /\ logins[userId] > 0
  /\ LET session == IF fault = "session" THEN Stmt(FALSE, "storage", db, None)
                    ELSE InsertSession(db, getSessionExpirationDate(now),
                                       userId)
     IN  /\ db' = session.db
         /\ ret' = IF session.ok
                   THEN ReturnSession("login", session.db, session.id)
                   ELSE Throw("login", session.err)
  /\ logins' = [logins EXCEPT ![userId] = @ - 1]
  /\ UNCHANGED <<now, deletes, changes, sent, cookie, loads>>

\* resetUserPassword({ username, password })
ResetUserPassword(username, password, salt) ==
  /\ Ready
  /\ LET outcome == resetUserPasswordCallback(db, username,
                                              getPasswordHash(password, salt))
     IN  /\ db' = Transaction(db, outcome)
         /\ ret' = IF outcome.ok
                   THEN ReturnUser("resetUserPassword", outcome.id)
                   ELSE Throw("resetUserPassword", outcome.err)
  /\ UNCHANGED <<now, logins, deletes, changes, sent, cookie, loads>>

\* signup({ email, username, password, name })
Signup(email, username, password, salt, fault) ==
  /\ Ready
  /\ MayInsertUser
  /\ MayInsertSession
  /\ LET outcome == signupCallback(db, email, username,
                                   getPasswordHash(password, salt), now, fault)
     IN  /\ db' = Transaction(db, outcome)
         /\ ret' = IF outcome.ok
                   THEN ReturnSession("signup", outcome.db, outcome.id)
                   ELSE Throw("signup", outcome.err)
  /\ UNCHANGED <<now, logins, deletes, changes, sent, cookie, loads>>

\* signupWithConnection({ email, username, name, providerId, providerName,
\* imageUrl })
SignupWithConnection(email, username, providerId, providerName, image, fault) ==
  /\ Ready
  /\ MayInsertUser
  /\ MayInsertSession
  /\ LET outcome == signupWithConnectionCallback(db, email, username,
                      providerId, providerName, image, now, fault)
     IN  /\ db' = Transaction(db, outcome)
         /\ ret' = IF outcome.ok
                   THEN ReturnSession("signupWithConnection", outcome.db,
                                      outcome.id)
                   ELSE Throw("signupWithConnection", outcome.err)
  /\ UNCHANGED <<now, logins, deletes, changes, sent, cookie, loads>>

\* a logout that awaits its delete and lets the failure escape
LogoutAwaited(sessionId) ==
  /\ Ready
  /\ \E failed \in BOOLEAN :
       /\ db' = IF failed \/ sessionId = None THEN db
                ELSE DeleteSession(db, sessionId)
       /\ ret' = IF failed THEN Throw("logout", "storage")
                 ELSE Redirect("logout", "/", "destroy")
  /\ UNCHANGED <<now, logins, deletes, changes, sent, cookie, loads>>

\* logout({ request }): the delete is fired and not awaited, the redirect
\* that destroys the cookie is thrown at once
Logout(sessionId) ==
  /\ Ready
  /\ deletes' = IF sessionId # None THEN deletes \cup {sessionId} ELSE deletes
  /\ ret' = Redirect("logout", "/", "destroy")
  /\ UNCHANGED <<db, now, logins, changes, sent, cookie, loads>>

\* a delete fired by logout reaches the store
DeleteRuns(sessionId) ==
  /\ Ready
  /\ sessionId \in deletes
  /\ db' = DeleteSession(db, sessionId)
  /\ deletes' = deletes \ {sessionId}
  /\ ret' = NoResponse
  /\ UNCHANGED <<now, logins, changes, sent, cookie, loads>>

\* a delete fired by logout fails; .catch(() => {}) swallows the error
DeleteFails(sessionId) ==
  /\ Ready
  /\ sessionId \in deletes
  /\ deletes' = deletes \ {sessionId}
  /\ ret' = NoResponse
  /\ UNCHANGED <<db, now, logins, changes, sent, cookie, loads>>

\* an account is deleted
DeleteUser(userId) ==
  /\ Ready
  /\ userId \in UserIds(db)
  /\ db' = DeleteUserCascade(db, userId)
  /\ UNCHANGED <<now, logins, ret, deletes, changes, sent, cookie, loads>>

\* requireUserId(request, { redirectTo }), the cookie carrying sessionId
RequireUserId(sessionId, redirectTo) ==
  /\ Ready
  /\ ret' = requireUserId(db, sessionId, now, redirectTo)
  /\ UNCHANGED <<db, now, logins, deletes, changes, sent, cookie, loads>>

\* requireAnonymous(request), the cookie carrying sessionId
RequireAnonymous(sessionId) ==
  /\ Ready
  /\ ret' = requireAnonymous(db, sessionId, now)
  /\ UNCHANGED <<db, now, logins, deletes, changes, sent, cookie, loads>>

\* the note-edit loader, through `await requireUserId(request)`: the cookie
\* carries sessionId, params.noteId is noteId
LoaderResolve(sessionId, noteId) ==
  /\ Ready
  /\ LET answer == requireUserId(db, sessionId, now, "undefined")
     IN  IF answer.kind = "return"
         THEN /\ Cardinality(loads) < MaxLoads
              /\ loads' = loads \cup {[userId |-> answer.userId,
                                       noteId |-> noteId]}
              /\ ret' = NoResponse
         ELSE /\ ret' = [answer EXCEPT !.op = "loader"]
              /\ UNCHANGED loads
  /\ UNCHANGED <<db, now, logins, deletes, changes, sent, cookie>>

\* the note-edit loader, from the notes query on
LoaderQuery(load) ==
  /\ Ready
  /\ load \in loads
  /\ LET note == FindFirstNote(db, load.noteId, load.userId)
     IN  ret' = IF note = {} THEN Throw("loader", "404")
                ELSE JsonNote("loader", CHOOSE n \in note : TRUE)
  /\ loads' = loads \ {load}
  /\ UNCHANGED <<db, now, logins, deletes, changes, sent, cookie>>

\* the browser takes the answer to its request: a set-cookie header that
\* destroys the auth session leaves its cookie without a session id
Receive ==
  /\ ret # NoResponse
  /\ ret' = NoResponse
  /\ sent' = {}
  /\ cookie' = IF ret.setCookie = "destroy" THEN None ELSE cookie
  /\ UNCHANGED <<db, now, logins, deletes, changes, loads>>

\* the browser takes a session it was given: sessionKey is set to the
\* session's id and the auth session committed to its cookie
ReceiveSession ==
  /\ ret.kind = "return" /\ ret.session.id # None
  /\ ret' = NoResponse
  /\ sent' = {}
  /\ cookie' = ret.session.id
  /\ UNCHANGED <<db, now, logins, deletes, changes, loads>>

\* the row users.findFirst({ where: eq(users.id, userId) }) returns
UserById(d, userId) == CHOOSE u \in d.users : u.id = userId

\* handleVerification without the `if (!newEmail)` answer of lines 30-41
HandleVerificationReadNoPendingCheck(target, newEmail, recent) ==
  /\ Ready
  /\ IF ~recent
        THEN ret' = Throw("handleVerification", "verification required")
             /\ UNCHANGED changes
      ELSE IF target \notin UserIds(db)
        THEN ret' = Throw("handleVerification", "User should exist")
             /\ UNCHANGED changes
      ELSE /\ Cardinality(changes) < MaxChanges
           /\ changes' = changes \cup
                 {[target |-> target, newEmail |-> newEmail,
                   preUpdateEmail |-> UserById(db, target).email]}
           /\ ret' = NoResponse
  /\ UNCHANGED <<db, now, logins, deletes, sent, cookie, loads>>

\* change-email handleVerification, through the read of the user's row:
\* recent is whether requireRecentVerification lets the request pass,
\* newEmail what the verify session holds, target the submission's target
HandleVerificationRead(target, newEmail, recent) ==
  /\ Ready
  /\ IF ~recent
     THEN /\ ret' = Throw("handleVerification", "verification required")
          /\ UNCHANGED changes
     ELSE IF newEmail = NoEmail
     THEN /\ ret' = Json("handleVerification", "400")
          /\ UNCHANGED changes
     ELSE IF target \notin UserIds(db)
     THEN /\ ret' = Throw("handleVerification", "User should exist")
          /\ UNCHANGED changes
     ELSE /\ Cardinality(changes) < MaxChanges
          /\ changes' = changes \cup
               {[target |-> target, newEmail |-> newEmail,
                 preUpdateEmail |-> UserById(db, target).email]}
          /\ ret' = NoResponse
  /\ UNCHANGED <<db, now, logins, deletes, sent, cookie, loads>>

\* change-email handleVerification, from the update on: the notice goes to
\* the address read before, the answer destroys the verify session
HandleVerificationUpdate(change) ==
  /\ Ready
  /\ change \in changes
  /\ LET update == UpdateUserEmail(db, change.target, change.newEmail)
     IN  /\ db' = update.db
         /\ IF ~update.ok
            THEN /\ ret' = Throw("handleVerification", update.err)
                 /\ sent' = {}
            ELSE IF update.id = None
            THEN /\ ret' = Throw("handleVerification", "User should exist")
                 /\ sent' = {}
            ELSE /\ ret' = Redirect("handleVerification",
                                    "/settings/profile", "destroyVerify")
                 /\ sent' = {[to |-> change.preUpdateEmail,
                              userId |-> update.id]}
  /\ changes' = changes \ {change}
  /\ UNCHANGED <<now, logins, deletes, cookie, loads>>

\* a note is created for a user
CreateNote(ownerId) ==
  /\ Ready
  /\ db.nextNoteId <= MaxNotes
  /\ LET note == InsertNote(db, ownerId)
     IN  /\ db' = note.db
         /\ ret' = IF note.ok THEN ReturnUser("createNote", ownerId)
                   ELSE Throw("createNote", note.err)
  /\ UNCHANGED <<now, logins, deletes, changes, sent, cookie, loads>>

\* an image is attached to a note
CreateNoteImage(noteId) ==
  /\ Ready
  /\ db.nextNoteImageId <= MaxNoteImages
  /\ LET image == InsertNoteImage(db, noteId)
     IN  /\ db' = image.db
         /\ ret' = IF image.ok THEN ReturnNull("createNoteImage")
                   ELSE Throw("createNoteImage", image.err)
  /\ UNCHANGED <<now, logins, deletes, changes, sent, cookie, loads>>

\* the instants the ledger's clock is read at: the start, and one period
\* later, when a verification created at the start has just expired
VerificationInstants == {Instant(0, 0), Instant(VerificationPeriod, 0)}

\* the codes a request can submit: any secret's code of either period
CodeInputs == {GenerateCode(secret, t) : secret \in SecretInputs, t \in VerificationInstants}

\* a verification is prepared for (target, type); expires is whether it is
\* given an expiry, one period from now
CreateVerification(type, target, secret, expires) ==
  /\ Ready
  /\ \/ VerificationRows(db, type, target) # {}
     \/ Cardinality(db.verifications) < MaxVerifications
  /\ db' = UpsertVerification(db, type, target, secret,
                              IF expires
                              THEN mapToDriverValue(Instant(now.s + VerificationPeriod, now.ms))
                              ELSE NoExpiry, now)
  /\ ret' = ReturnNull("createVerification")
  /\ UNCHANGED <<now, logins, deletes, changes, sent, cookie, loads>>

\* a submitted code is checked against the pair's verification
VerifyCode(type, target, code) ==
  /\ Ready
  /\ ret' = ReturnBoolean("isCodeValid", IsCodeValid(db, type, target, code, now))
  /\ UNCHANGED <<db, now, logins, deletes, changes, sent, cookie, loads>>

\* the pair's verification is consumed
ConsumeVerification(type, target) ==
  /\ Ready
  /\ db' = DeleteVerification(db, type, target)
  /\ ret' = ReturnNull("deleteVerification")
  /\ UNCHANGED <<now, logins, deletes, changes, sent, cookie, loads>>

Next ==
  \/ Respond
  \/ \E t \in ClockInstants : Tick(t)
  \/ \E sessionId \in CookieSessionIds : GetUserId(sessionId)
  \/ \E username \in UsernameLookups, password \in PasswordInputs :
       Login(username, password)
  \/ \E userId \in 1..MaxUsers, fault \in Faults : LoginInsert(userId, fault)
  \/ \E username \in UsernameLookups, password \in PasswordInputs,
        salt \in Salts : ResetUserPassword(username, password, salt)
  \/ \E email \in EmailInputs, username \in UsernameInputs,
        password \in PasswordInputs, salt \in Salts, fault \in Faults :
       Signup(email, username, password, salt, fault)
  \/ \E email \in EmailInputs, username \in UsernameInputs,
        providerId \in ProviderIds, providerName \in ProviderNames,
        image \in ImageInputs, fault \in Faults :
       SignupWithConnection(email, username, providerId, providerName,
                            image, fault)
  \/ \E sessionId \in CookieSessionIds : Logout(sessionId)
  \/ \E sessionId \in deletes : DeleteRuns(sessionId)
  \/ \E sessionId \in deletes : DeleteFails(sessionId)

Spec == Init /\ [][Next]_vars

\* the handlers above, and accounts being deleted
NextWithDeletion == Next \/ \E userId \in 1..MaxUsers : DeleteUser(userId)

SpecWithDeletion == Init /\ [][NextWithDeletion]_vars

\* every step that writes a row that references a user or a note, and
\* accounts being deleted
NextCascade ==
  \/ Respond
  \/ \E username \in UsernameLookups, password \in PasswordInputs :
       Login(username, password)
  \/ \E userId \in 1..MaxUsers, fault \in Faults : LoginInsert(userId, fault)
  \/ \E username \in UsernameLookups, password \in PasswordInputs,
        salt \in Salts : ResetUserPassword(username, password, salt)
  \/ \E email \in EmailInputs, username \in UsernameInputs,
        password \in PasswordInputs, salt \in Salts, fault \in Faults :
       Signup(email, username, password, salt, fault)
  \/ \E email \in EmailInputs, username \in UsernameInputs,
        providerId \in ProviderIds, providerName \in ProviderNames,
        image \in ImageInputs, fault \in Faults :
       SignupWithConnection(email, username, providerId, providerName,
                            image, fault)
  \/ \E ownerId \in 1..MaxUsers : CreateNote(ownerId)
  \/ \E noteId \in 1..MaxNotes : CreateNoteImage(noteId)
  \/ \E userId \in 1..MaxUsers : DeleteUser(userId)

SpecCascade == Init /\ [][NextCascade]_vars

\* the verification ledger: creating, checking and consuming verifications
\* while time passes
NextVerification ==
  \/ Respond
  \/ \E t \in VerificationInstants : Tick(t)
  \/ \E type \in VerificationTypes, target \in VerificationTargets,
        secret \in SecretInputs, expires \in BOOLEAN :
       CreateVerification(type, target, secret, expires)
  \/ \E type \in VerificationTypes, target \in VerificationTargets,
        code \in CodeInputs : VerifyCode(type, target, code)
  \/ \E type \in VerificationTypes, target \in VerificationTargets :
       ConsumeVerification(type, target)

SpecVerification == Init /\ [][NextVerification]_vars

\* one browser and the requests it makes with its auth cookie, while
\* accounts sign up, time passes and accounts are deleted
NextBrowser ==
  \/ Receive
  \/ ReceiveSession
  \/ \E t \in ClockInstants : Tick(t)
  \/ \E email \in EmailInputs, username \in UsernameInputs, salt \in Salts :
       Signup(email, username, "pw1", salt, "none")
  \/ \E userId \in 1..MaxUsers : DeleteUser(userId)
  \/ GetUserId(cookie)
  \/ \E redirectTo \in RedirectToInputs : RequireUserId(cookie, redirectTo)
  \/ RequireAnonymous(cookie)

SpecBrowser == Init /\ [][NextBrowser]_vars

\* one browser loading the note-edit page, while accounts sign up, notes are
\* created and accounts are deleted
NextNotes ==
  \/ Receive
  \/ ReceiveSession
  \/ \E email \in EmailInputs, username \in UsernameInputs, salt \in Salts :
       Signup(email, username, "pw1", salt, "none")
  \/ \E ownerId \in 1..MaxUsers : CreateNote(ownerId)
  \/ \E userId \in 1..MaxUsers : DeleteUser(userId)
  \/ \E noteId \in 1..MaxNotes : LoaderResolve(cookie, noteId)
  \/ \E load \in loads : LoaderQuery(load)

SpecNotes == Init /\ [][NextNotes]_vars

\* every step that writes a user's email or username
NextEmail ==
  \/ Respond
  \/ \E email \in EmailInputs, username \in UsernameInputs,
        password \in PasswordInputs, salt \in Salts, fault \in Faults :
       Signup(email, username, password, salt, fault)
  \/ \E email \in EmailInputs, username \in UsernameInputs,
        providerId \in ProviderIds, providerName \in ProviderNames,
        image \in ImageInputs, fault \in Faults :
       SignupWithConnection(email, username, providerId, providerName,
                            image, fault)
  \/ \E target \in 1..MaxUsers, newEmail \in PendingEmailInputs,
        recent \in BOOLEAN : HandleVerificationRead(target, newEmail, recent)
  \/ \E change \in changes : HandleVerificationUpdate(change)

SpecEmail == Init /\ [][NextEmail]_vars

(* ------------------------------ claims --------------------------------- *)
\* the session rows a cookie value names
SessionRows(d, sessionId) == {s \in d.sessions : s.id = sessionId}

\* now < expirationDate, on instants
Live(s, t) == InstantLess(t, mapFromDriverValue(s.expirationDate))

\* every session id ever issued still has its row, and all of them are expired
AllSessionsExpired ==
  /\ db.sessions # {}
  /\ Cardinality(db.sessions) = db.nextSessionId - 1
  /\ \A s \in db.sessions : ~Live(s, now)

C2_ResetLeavesOtherPasswords ==
  [][\A username \in UsernameLookups, password \in PasswordInputs,
        salt \in Salts :
       ResetUserPassword(username, password, salt) =>
         \A i \in DOMAIN db.passwords :
           db.passwords[i].userId #
               FindFirstUser(db, Where("username", username)) =>
             /\ i \in DOMAIN db'.passwords
             /\ db'.passwords[i] = db.passwords[i]
    ]_vars

\* C3 as claimed: once resetUserPassword has returned the user, the new
\* password verifies for that username and a previous, different password
\* no longer does.
C3_ResetThenVerify ==
  [][\A username \in UsernameLookups, password \in PasswordInputs,
        salt \in Salts :
       ResetUserPassword(username, password, salt) /\ ret'.kind = "return" =>
         /\ verifyUserPassword(db', Where("username", username), password)
              = ret'.userId
         /\ \A old \in PasswordInputs \ {password} :
              verifyUserPassword(db', Where("username", username), old) = None
    ]_vars

\* C4 as claimed: when downloadFile throws, signupWithConnection commits and
\* returns what it would have without an imageUrl: the User, its role
\* assignment, its Connection and its Session, and no UserImage.
C4_AvatarFailureTolerated ==
  [][\A email \in EmailInputs, username \in UsernameInputs,
        providerId \in ProviderIds, providerName \in ProviderNames :
       LET plain == signupWithConnectionCallback(db, email, username,
                      providerId, providerName, "absent", now, "none")
       IN  /\ SignupWithConnection(email, username, providerId, providerName,
                                   "throws", "none")
           /\ plain.ok
           => /\ ret' = ReturnSession("signupWithConnection", plain.db,
                                      plain.id)
              /\ db' = plain.db
    ]_vars

\* C5: a signup or signupWithConnection that fails leaves no row it wrote:
\* every table is as it was before the call.
C5_SignupAllOrNothing ==
  [][ret'.op \in {"signup", "signupWithConnection"} /\ ret'.kind = "throw"
       => db' = db
    ]_vars

\* a signupWithConnection has failed after its user, role and connection
\* inserts, and the store holds no row
C5_Witness ==
  /\ ret = Throw("signupWithConnection", "download")
  /\ db.users = {}
  /\ db.connections = {}
  /\ db.rolesToUsers = <<>>

\* the users holding a username or an email once it is lowercased
UsersNamed(d, username) ==
  {u \in d.users : u.username = ToLowerCase(username)}

UsersMailed(d, email) == {u \in d.users : u.email = ToLowerCase(email)}

PasswordRowsOf(d, userId) ==
  {i \in DOMAIN d.passwords : d.passwords[i].userId = userId}

RoleRowsOf(d, userId) ==
  {i \in DOMAIN d.rolesToUsers : d.rolesToUsers[i].userId = userId}

SessionsOf(d, userId) == {s \in d.sessions : s.userId = userId}

\* C6: of the signups made for one username the first to reach the store
\* succeeds (the 'user' role being seeded, its email free and the store
\* accepting its writes) and every later one fails on the users_username
\* unique index and writes nothing; afterwards exactly one User row holds the
\* username, with the one Password row, role assignment and Session the
\* winner created.
C6_OneSignupPerUsername ==
  [][\A email \in EmailInputs, username \in UsernameInputs,
        password \in PasswordInputs, salt \in Salts :
       ret'.op = "signup" /\ Signup(email, username, password, salt, "none")
       =>
         /\ Cardinality(UsersNamed(db', username)) <= 1
         /\ IF UsersNamed(db, username) # {}
            THEN /\ ret' = Throw("signup", "unique")
                 /\ db' = db
            ELSE UsersMailed(db, email) = {} /\ UserRole \in db.roles =>
                   /\ ret'.kind = "return"
                   /\ \E u \in db'.users :
                        /\ UsersNamed(db', username) = {u}
                        /\ Cardinality(PasswordRowsOf(db', u.id)) = 1
                        /\ Cardinality(RoleRowsOf(db', u.id)) = 1
                        /\ \E s \in db'.sessions :
                             /\ SessionsOf(db', u.id) = {s}
                             /\ ret'.session.id = s.id
    ]_vars

\* a signup has lost to an earlier one for its username: it failed on the
\* unique index while the winner's user, password and session are in place
C6_Witness ==
  /\ ret = Throw("signup", "unique")
  /\ \E u \in db.users :
       /\ db.users = {u}
       /\ Cardinality(PasswordRowsOf(db, u.id)) = 1
       /\ Cardinality(SessionsOf(db, u.id)) = 1

\* the user a where clause selects whose stored hash the password matches,
\* None when there is none
VerifiedUser(d, where, password) ==
  LET hits == {u \in d.users :
                 /\ \/ where.column = "username" /\ u.username = where.value
                    \/ where.column = "email" /\ u.email = where.value
                 /\ \E i \in PasswordRowsOf(d, u.id) :
                      d.passwords[i].hash =
                        BcryptHash(password, d.passwords[i].hash.salt)}
  IN  IF hits = {} THEN None ELSE (CHOOSE u \in hits : TRUE).id

\* C7: verifyUserPassword answers with the id of user U exactly when U is
\* selected by the where, has a Password row and the password matches the
\* stored hash; in every other case it answers null: it never throws. login,
\* which calls it, goes on to its session insert for U in the first case and
\* returns null in every other.
C7_VerifyUserPassword ==
  [][\A username \in UsernameLookups, password \in PasswordInputs :
       (ret'.op = "login" \/ logins' # logins) /\ Login(username, password)
       =>
         LET userId == VerifiedUser(db, Where("username", username), password)
         IN  IF userId = None
             THEN ret' = ReturnNull("login") /\ logins' = logins
             ELSE /\ ret' = NoResponse
                  /\ logins' = [logins EXCEPT ![userId] = @ + 1]
    ]_vars

\* a login is past verifyUserPassword, for a user whose password row it read
C7_Witness ==
  \E u \in db.users :
    /\ logins[u.id] > 0
    /\ PasswordRowsOf(db, u.id) # {}

\* C8: a login whose username and password do not verify returns null and
\* writes nothing; login inserts a Session row only once verifyUserPassword
\* has returned a user, and the row belongs to that user.
C8_LoginSessions ==
  [][/\ \A username \in UsernameLookups, password \in PasswordInputs :
          /\ ret'.op = "login" \/ logins' # logins
          /\ Login(username, password)
          /\ VerifiedUser(db, Where("username", username), password) = None
          => ret' = ReturnNull("login") /\ db' = db /\ logins' = logins
     /\ \A userId \in 1..MaxUsers :
          logins'[userId] > logins[userId] =>
            \E username \in UsernameLookups, password \in PasswordInputs :
              VerifiedUser(db, Where("username", username), password) = userId
     /\ ret'.op = "login" /\ db' # db =>
          \E userId \in 1..MaxUsers :
            /\ logins[userId] > 0
            /\ logins' = [logins EXCEPT ![userId] = @ - 1]
            /\ \E s \in db'.sessions \ db.sessions :
                 /\ s.userId = userId
                 /\ s.id = ret'.session.id
                 /\ db'.sessions = db.sessions \cup {s}
     /\ db'.sessions \ db.sessions # {} =>
          ret'.op \in {"login", "signup", "signupWithConnection"}
    ]_vars

\* a login has returned null while password rows are stored, and every
\* session in the store is the one its user's signup made
C8_Witness ==
  /\ ret = ReturnNull("login")
  /\ db.passwords # <<>>
  /\ \A u \in db.users : Cardinality(SessionsOf(db, u.id)) <= 1

IsLowerCase(s) == \A i \in DOMAIN s : ~(s[i] >= 65 /\ s[i] <= 90)

\* C9: a signup that succeeds commits exactly one new User, its email and
\* username lowercased; one Password row of that user whose hash verifies
\* the password given; one assignment of that user to the role named 'user';
\* and one Session of that user, not yet expired, which is the one returned.
C9_SignupCommits ==
  [][\A email \in EmailInputs, username \in UsernameInputs,
        password \in PasswordInputs, salt \in Salts, fault \in Faults :
       /\ ret'.op = "signup" /\ ret'.kind = "return"
       /\ Signup(email, username, password, salt, fault)
       =>
       \E u \in db'.users \ db.users :
         /\ db'.users = db.users \cup {u}
         /\ u.email = ToLowerCase(email) /\ IsLowerCase(u.email)
         /\ u.username = ToLowerCase(username) /\ IsLowerCase(u.username)
         /\ \E hash \in {BcryptHash(password, salt)} :
              db'.passwords =
                Append(db.passwords, [hash |-> hash, userId |-> u.id])
         /\ VerifiedUser(db', Where("username", u.username), password) = u.id
         /\ \E role \in db.roles :
              /\ role.name = "user"
              /\ db'.rolesToUsers =
                   Append(db.rolesToUsers,
                          [userId |-> u.id, roleId |-> role.id])
         /\ \E s \in db'.sessions \ db.sessions :
              /\ db'.sessions = db.sessions \cup {s}
              /\ s.userId = u.id
              /\ Live(s, now')
              /\ ret'.session.id = s.id
              /\ getUserId(db', s.id, now') = ReturnUser("getUserId", u.id)
         /\ db'.connections = db.connections
         /\ db'.userImages = db.userImages
    ]_vars

\* a signup typed in capitals has returned its session
C9_Witness ==
  /\ ret.op = "signup" /\ ret.kind = "return"
  /\ \E u \in db.users, s \in db.sessions :
       /\ u.username = ToLowerCase(<<65>>)
       /\ u.email = ToLowerCase(<<88>>)
       /\ s.userId = u.id
       /\ s.id = ret.session.id

\* C10: logout always answers with the redirect that destroys the auth
\* cookie: it answers before its session delete has run, and whether the
\* delete then succeeds or fails nothing more is answered or thrown.
C10_LogoutRedirects ==
  [][/\ ret'.op = "logout" => ret' = Redirect("logout", "/", "destroy")
     /\ \A sessionId \in CookieSessionIds :
          ret'.op = "logout" /\ Logout(sessionId) =>
            /\ ret' = Redirect("logout", "/", "destroy")
            /\ db' = db
            /\ sessionId # None => sessionId \in deletes'
     /\ \A sessionId \in deletes :
          /\ deletes' # deletes
          /\ DeleteRuns(sessionId) \/ DeleteFails(sessionId)
          =>
            ret' = NoResponse
    ]_vars

\* logout has answered while the delete of its session row is still to run
C10_Witness ==
  /\ ret = Redirect("logout", "/", "destroy")
  /\ \E sessionId \in deletes : SessionRows(db, sessionId) # {}

\* C11: deleting a session is idempotent.  The delete logout fires for a
\* session id removes exactly the rows with that id and touches nothing
\* else; for an id that has no row it is no error and leaves the store as it
\* is, so a second logout with the same id ends in the store the first one
\* left; and logout itself answers with its redirect, never with an error.
C11_LogoutIdempotent ==
  [][/\ ret'.op = "logout" => ret'.kind = "redirect"
     /\ \A sessionId \in deletes :
          /\ deletes' # deletes /\ ret'.op # "logout"
          /\ DeleteRuns(sessionId)
          => /\ ret' = NoResponse
             /\ db'.sessions = db.sessions \ SessionRows(db, sessionId)
             /\ SessionRows(db, sessionId) = {} => db' = db
             /\ [db' EXCEPT !.sessions = db.sessions] = db
    ]_vars

\* logout has been called again for a session whose row an earlier logout
\* deleted, while other sessions are stored
C11_Witness ==
  /\ ret = Redirect("logout", "/", "destroy")
  /\ db.sessions # {}
  /\ \E sessionId \in deletes : SessionRows(db, sessionId) = {}

\* C12: resolving a session never deletes it.  getUserId, whether the
\* session is valid, expired or missing, leaves every table as it is; a
\* Session row leaves the store only by the delete a logout fired for its id
\* or together with the User that owns it.
C12_ResolveNeverDeletes ==
  [][/\ ret'.op = "getUserId" => db' = db
     /\ db.sessions \ db'.sessions # {} =>
          \/ \E sessionId \in deletes :
               /\ deletes' = deletes \ {sessionId}
               /\ db.sessions \ db'.sessions = SessionRows(db, sessionId)
          \/ \E userId \in UserIds(db) \ UserIds(db') :
               db.sessions \ db'.sessions = SessionsOf(db, userId)
    ]_vars

\* getUserId has turned an expired session away, and the row of every
\* session ever issued is still stored
C12_Witness ==
  /\ ret.op = "getUserId" /\ ret.kind = "redirect"
  /\ deletes = {}
  /\ AllSessionsExpired

\* the connections bound to a (providerName, providerId) pair
ConnectionsOf(d, providerName, providerId) ==
  {c \in d.connections :
     c.providerName = providerName /\ c.providerId = providerId}

\* C13: no two Connection rows ever share a (providerName, providerId);
\* a signupWithConnection for a pair that is already bound fails and leaves
\* the store, its users included, as it was.
C13_ConnectionUnique ==
  [][/\ \A c1, c2 \in db'.connections :
          c1.providerName = c2.providerName /\ c1.providerId = c2.providerId
          => c1 = c2
     /\ \A email \in EmailInputs, username \in UsernameInputs,
           providerId \in ProviderIds, providerName \in ProviderNames,
           image \in ImageInputs, fault \in Faults :
          /\ ret'.op = "signupWithConnection"
          /\ SignupWithConnection(email, username, providerId, providerName,
                                  image, fault)
          /\ ConnectionsOf(db, providerName, providerId) # {}
          => ret'.kind = "throw" /\ db' = db
    ]_vars

\* a signupWithConnection has failed on the connection index: its email and
\* username were free, its provider pair is bound to the one user stored
C13_Witness ==
  /\ ret = Throw("signupWithConnection", "unique connection")
  /\ Cardinality(db.users) = 1
  /\ Cardinality(db.connections) = 1

\* C14: at every moment, whatever was signed up, logged in, reset, written
\* and deleted before, every Session, Password, Connection, Note, UserImage
\* and role_user row references a User that exists and every NoteImage a
\* Note that exists: a deleted User takes its dependent rows with it.
C14_NoOrphans ==
  /\ \A i \in DOMAIN db.passwords : db.passwords[i].userId \in UserIds(db)
  /\ \A i \in DOMAIN db.rolesToUsers :
       db.rolesToUsers[i].userId \in UserIds(db)
  /\ \A s \in db.sessions : s.userId \in UserIds(db)
  /\ \A c \in db.connections : c.userId \in UserIds(db)
  /\ \A i \in db.userImages : i.userId \in UserIds(db)
  /\ \A n \in db.notes : n.ownerId \in UserIds(db)
  /\ \A i \in db.noteImages : i.noteId \in {n.id : n \in db.notes}

\* the one user ever signed up, who came with a connection and an avatar
\* and owned a note with an image, has been deleted
C14_Witness ==
  /\ db.users = {}
  /\ db.nextUserId = 2
  /\ db.nextSessionId > 1
  /\ db.nextNoteImageId > 1
  /\ db.connections = {} /\ db.userImages = {}
  /\ db.notes = {} /\ db.noteImages = {}

\* C15 as claimed: every email change that succeeds sends its notice to the
\* address the user's row held immediately before the update, and a notice
\* is sent only by a step whose update succeeded.
C15_NoticeToPreviousAddress ==
  [][/\ \A change \in changes :
          /\ ret'.op = "handleVerification" /\ ret'.kind = "redirect"
          /\ HandleVerificationUpdate(change)
          => \E u \in db.users :
               /\ u.id = change.target
               /\ sent' = {[to |-> u.email, userId |-> u.id]}
     /\ sent' # {} =>
          /\ ret'.op = "handleVerification" /\ ret'.kind = "redirect"
          /\ \A mail \in sent' :
               \E u \in db'.users, change \in changes :
                 /\ u.id = mail.userId /\ change.target = u.id
                 /\ u.email = change.newEmail
    ]_vars

\* ---- C16 ---------------------------------------------------------------
\* C16: handleVerification writes User.email only in a request in which
\* requireRecentVerification returned and the verify session held a pending
\* new email, and the value written is that pending email; a request whose
\* verification is not recent throws before anything is read, a request
\* without a pending email is answered 400, and neither changes a row, queues
\* an update or sends a notice; the redirect that ends a successful change
\* carries the cookie that destroys the verify session.
EmailOf(d, userId) == {u.email : u \in {v \in d.users : v.id = userId}}

C16_ChangeEmailGuarded ==
  [][/\ \A userId \in UserIds(db) \cap UserIds(db') :
          EmailOf(db', userId) # EmailOf(db, userId)
          => /\ ret'.op = "handleVerification" /\ ret'.kind = "redirect"
             /\ ret'.setCookie = "destroyVerify"
             /\ \E change \in changes \ changes' :
                    /\ change.target = userId
                    /\ change.newEmail # NoEmail
                    /\ EmailOf(db', userId) = {change.newEmail}
     /\ \A change \in changes' \ changes :
         /\ change.newEmail \in PendingEmailInputs \ {NoEmail}
         /\ HandleVerificationRead(change.target, change.newEmail, TRUE)
     /\ \A target \in 1..MaxUsers, newEmail \in PendingEmailInputs :
         HandleVerificationRead(target, newEmail, FALSE)
         => ret'.kind = "throw" /\ db' = db /\ changes' = changes /\ sent' = {}
     /\ \A target \in 1..MaxUsers :
         HandleVerificationRead(target, NoEmail, TRUE)
         => /\ ret' = Json("handleVerification", "400")
            /\ db' = db /\ changes' = changes /\ sent' = {}
     /\ ret'.op = "handleVerification" /\ ret'.kind = "json"
         => db' = db /\ changes' = changes /\ sent' = {}
     /\ ret'.op = "handleVerification" /\ ret'.kind = "redirect"
         => ret'.setCookie = "destroyVerify"
     ]_vars

\* a change to "z" was applied and the handler answered with the redirect
C16_Witness ==
  /\ ret = Redirect("handleVerification", "/settings/profile", "destroyVerify")
  /\ \E u \in db.users : u.email = <<122>>
  /\ sent # {}

UniqueUsers(d) ==
  \A u, v \in d.users :
     u.id # v.id => u.email # v.email /\ u.username # v.username

C18_UsersUnique ==
  [][/\ UniqueUsers(db')
     /\ \A email \in EmailInputs, username \in UsernameInputs :
          /\ ret'.op \in {"signup", "signupWithConnection"}
          /\ UsersMailed(db, email) \cup UsersNamed(db, username) # {}
          /\ \/ /\ ret'.op = "signup"
                /\ \E password \in PasswordInputs, salt \in Salts,
                      fault \in Faults :
                     Signup(email, username, password, salt, fault)
             \/ /\ ret'.op = "signupWithConnection"
                /\ \E providerId \in ProviderIds,
                      providerName \in ProviderNames,
                      image \in ImageInputs, fault \in Faults :
                     SignupWithConnection(email, username, providerId,
                                          providerName, image, fault)
          => ret'.kind = "throw" /\ db' = db
     /\ \A change \in changes :
          /\ \E u \in db.users :
                u.id # change.target /\ u.email = change.newEmail
          /\ ret'.op = "handleVerification"
          /\ changes' = changes \ {change}
          => ret'.kind = "throw" /\ db' = db /\ sent' = {}
    ]_vars

\* an email change to the address of the other user has failed on the
\* users_email unique index, both rows in place
C18_Witness ==
  /\ ret = Throw("handleVerification", "unique")
  /\ \E u, v \in db.users :
       u.id # v.id /\ u.email = <<120>> /\ v.email = <<121>>

\* ---- C19 ---------------------------------------------------------------
\* C19: resetUserPassword for a username that no users row holds throws
\* 'User not found' and leaves every table as it was: no passwords row is
\* created or rewritten.
C19_ResetUnknownUser ==
  [][\A username \in UsernameLookups :
       /\ ret'.op = "resetUserPassword"
       /\ \A u \in db.users : u.username # username
       /\ \E password \in PasswordInputs, salt \in Salts :
            ResetUserPassword(username, password, salt)
       => ret' = Throw("resetUserPassword", "User not found") /\ db' = db
    ]_vars

\* a reset for an unknown username has thrown while passwords rows exist
C19_Witness ==
  /\ ret = Throw("resetUserPassword", "User not found")
  /\ db.passwords # <<>>

\* ---- C20 ---------------------------------------------------------------
\* C20: the verification table never holds two rows for one (target, type);
\* creating a verification for a pair leaves exactly one row for it, holding
\* the new secret, and leaves the rows of every other pair alone: from then
\* on the code of the new secret validates for the pair and the code of a
\* replaced, different secret does not; a code is accepted only when it is
\* the code of the secret of the pair's one row.
C20_OneVerificationPerPair ==
  [][/\ \A type \in VerificationTypes, target \in VerificationTargets :
          Cardinality(VerificationRows(db', type, target)) <= 1
     /\ \A type \in VerificationTypes, target \in VerificationTargets,
           secret \in SecretInputs :
          /\ ret'.op = "createVerification"
          /\ \E expires \in BOOLEAN :
               CreateVerification(type, target, secret, expires)
          => /\ \E v \in db'.verifications :
                  VerificationRows(db', type, target) = {v} /\ v.secret = secret
             /\ db'.verifications \ VerificationRows(db', type, target)
                  = db.verifications \ VerificationRows(db, type, target)
             /\ IsCodeValid(db', type, target, GenerateCode(secret, now), now)
             /\ \A code \in CodeInputs :
                  IsCodeValid(db', type, target, code, now)
                  => code = GenerateCode(secret, now)
             /\ \A old \in VerificationRows(db, type, target) :
                  old.secret # secret =>
                    ~IsCodeValid(db', type, target,
                                 GenerateCode(old.secret, now), now)
     /\ \A type \in VerificationTypes, target \in VerificationTargets,
           code \in CodeInputs :
          /\ ret' = ReturnBoolean("isCodeValid", TRUE)
          /\ VerifyCode(type, target, code)
          => \E v \in db.verifications :
               /\ VerificationRows(db, type, target) = {v}
               /\ code = GenerateCode(v.secret, now)
    ]_vars

\* a verification inserted at the start was created again one period
\* later: its row was replaced in place and carries the later expiry, next
\* to the row of another pair
C20_Witness ==
  /\ ret.op = "createVerification"
  /\ \E v, w \in db.verifications :
       /\ v # w
       /\ v.expiresAt # NoExpiry
       /\ v.expiresAt > v.createdAt + VerificationPeriod

\* ---- C21 ---------------------------------------------------------------
\* C21 as claimed: in every state every user owns at most one passwords row.
C21_OnePasswordPerUser ==
  \A u \in db.users : Cardinality(PasswordRowsOf(db, u.id)) <= 1

\* ---- C22 ---------------------------------------------------------------
\* C22 as claimed: once logout has answered for a session id, a getUserId
\* whose cookie carries that id returns no user id, also while the delete
\* the logout fired is still on its way to the store.
C22_NoUserAfterLogout ==
  [][\A sessionId \in deletes :
       ret'.op = "getUserId" /\ GetUserId(sessionId)
       => ret'.userId = None
    ]_vars

\* ---- C23 ---------------------------------------------------------------
\* the session rows a cookie resolves to at an instant: the rows with its
\* session id that have not expired and whose user exists
Resolving(d, sessionId, t) ==
  {s \in SessionRows(d, sessionId) : Live(s, t) /\ s.userId \in UserIds(d)}

\* C23: requireUserId returns a user id only when, at the lookup, a session
\* row with the cookie's session id exists, belongs to that user and has
\* not expired; in every other case it returns no id and answers with a
\* redirect.
C23_RequireUserId ==
  [][ret'.op = "requireUserId" =>
       /\ ret'.kind \in {"return", "redirect"}
       /\ ret'.kind = "return" =>
            /\ ret'.userId # None
            /\ \E s \in Resolving(db, cookie, now) : s.userId = ret'.userId
       /\ Resolving(db, cookie, now) = {} =>
            ret'.kind = "redirect" /\ ret'.userId = None
       /\ ret'.kind = "redirect" => ret'.userId = None
    ]_vars

\* requireUserId has returned the user of a session that is about to expire
C23_Witness ==
  /\ ret.op = "requireUserId" /\ ret.kind = "return"
  /\ ret.userId \in UserIds(db)
  /\ now = Instant(SESSION_EXPIRATION_SECONDS - 1, MsPerSecond - 1)

\* ---- C24 ---------------------------------------------------------------
\* C24: a request whose cookie carries a session id that does not resolve is
\* answered by getUserId (also inside requireAnonymous) with the redirect to
\* "/" that destroys the auth cookie; the browser that takes this answer is
\* left without a session id; and a request without a session id is treated
\* as anonymous, getUserId returning null without a redirect.  So one stale
\* cookie is redirected once.
C24_StaleCookieOneRedirect ==
  [][/\ ret'.op \in {"getUserId", "requireAnonymous"} =>
          /\ cookie # None /\ Resolving(db, cookie, now) = {} =>
               ret' = Redirect(ret'.op, "/", "destroy")
          /\ cookie = None => ret' = ReturnNull(ret'.op)
          /\ ret'.setCookie = "destroy" =>
               cookie # None /\ Resolving(db, cookie, now) = {}
     /\ ret.setCookie = "destroy" /\ ret' = NoResponse => cookie' = None
    ]_vars

\* getUserId has turned away a cookie whose session row is gone
C24_Witness ==
  /\ ret = Redirect("getUserId", "/", "destroy")
  /\ cookie # None
  /\ SessionRows(db, cookie) = {}

\* ---- C28 ---------------------------------------------------------------
\* C28: the note-edit loader answers with a note only when the note has the
\* requested id and its ownerId is the user id resolved from the session of
\* the request's cookie; when no such note exists, be it that the note is
\* another user's or that there is no note with the id, the answer is the
\* same 404; a request without a session is redirected and gets no note.
C28_NoteOwnerOnly ==
  [][/\ \A load \in loads' \ loads :
          \E s \in Resolving(db, cookie, now) : s.userId = load.userId
     /\ ret'.op = "loader" =>
          /\ ret'.kind = "json" =>
               /\ ret'.note \in db.notes
               /\ \E load \in loads \ loads' :
                    /\ ret'.note.id = load.noteId
                    /\ ret'.note.ownerId = load.userId
          /\ \A load \in loads \ loads' :
               (\A n \in db.notes :
                   n.id = load.noteId => n.ownerId # load.userId)
               => ret' = Throw("loader", "404")
          /\ ret'.kind # "json" => ret'.note = NoNote
          /\ loads' = loads =>
               /\ ret'.kind = "redirect" /\ ret'.note = NoNote
               /\ Resolving(db, cookie, now) = {}
     /\ cookie = None => loads' \subseteq loads
    ]_vars

\* a signed-in user asked for a note that exists and is not theirs: 404
C28_Witness ==
  /\ ret = Throw("loader", "404")
  /\ cookie # None
  /\ \E n \in db.notes, u \in db.users : n.id = 1 /\ n.ownerId # u.id

\* ---- C25 ---------------------------------------------------------------
\* how a login must fail: "unknown" when no user has the username,
\* "no password" when the user has no passwords row, "mismatch" when the
\* user has rows and the password matches the hash of none; "" otherwise
LoginFailure(d, username, password) ==
  LET named == {u \in d.users : u.username = username}
  IN  IF named = {} THEN "unknown"
      ELSE IF \A u \in named : PasswordRowsOf(d, u.id) = {} THEN "no password"
      ELSE IF \A u \in named : \A i \in PasswordRowsOf(d, u.id) :
                 d.passwords[i].hash # BcryptHash(password,
                                                  d.passwords[i].hash.salt)
      THEN "mismatch"
      ELSE ""

\* C25: a login for a username no user has, for a user without a passwords
\* row and for a user whose password does not match all end alike: login
\* returns null, no row is written and no session insert is started, so the
\* answer does not tell the three apart.
C25_LoginFailuresAlike ==
  [][\A username \in UsernameLookups, password \in PasswordInputs :
       /\ ret'.op = "login" \/ logins' # logins
       /\ LoginFailure(db, username, password) # ""
       /\ Login(username, password)
       => ret' = ReturnNull("login") /\ db' = db /\ logins' = logins
    ]_vars

\* login has returned null while one user has only a connection and no
\* password, and another has a password
C25_Witness ==
  /\ ret = ReturnNull("login")
  /\ \E u, v \in db.users :
       /\ LoginFailure(db, u.username, "pw1") = "no password"
       /\ LoginFailure(db, v.username, "pw2") = "mismatch"
       /\ \E c \in db.connections : c.userId = u.id

\* ---- C26 ---------------------------------------------------------------
\* C26 as claimed: every session row a step creates carries, as its
\* expirationDate, the instant of its creation plus exactly thirty days.
C26_ThirtyDays ==
  [][\A s \in db'.sessions \ db.sessions :
       mapFromDriverValue(s.expirationDate)
         = Instant(now.s + SESSION_EXPIRATION_SECONDS, now.ms)
    ]_vars

\* ---- C27 ---------------------------------------------------------------
\* C27: a login that succeeds adds exactly one session row, under an id no
\* session was ever given, and leaves every session row already stored, of
\* that user and of others, and every other table as it was: the sessions
\* that resolved before the login still resolve after it.
C27_LoginAddsOneSession ==
  [][ret'.op = "login" /\ ret'.kind = "return" /\ ret'.session.id # None =>
       \E s \in db'.sessions :
         /\ s.id = ret'.session.id
         /\ s.id \notin CookieSessionIds
         /\ s \notin db.sessions
         /\ db'.sessions = db.sessions \cup {s}
         /\ db' = [db EXCEPT !.sessions = db'.sessions,
                             !.nextSessionId = db'.nextSessionId]
         /\ \A r \in db.sessions :
              Resolving(db', r.id, now) = Resolving(db, r.id, now)
    ]_vars

\* a login has returned a second session for a user whose first session
\* still resolves
C27_Witness ==
  /\ ret.op = "login" /\ ret.kind = "return"
  /\ \E r, s \in db.sessions :
       /\ r.id # s.id /\ r.userId = s.userId
       /\ s.id = ret.session.id
       /\ Resolving(db, r.id, now) = {r}
       /\ Resolving(db, s.id, now) = {s}

====
